---- MODULE Spec2Model ----
(***************************************************************************)
(* SH1106 OLED driver (sh1106.py): the controller base class SH1106 and    *)
(* its two bus variants SH1106_I2C and SH1106_SPI.                         *)
(*                                                                         *)
(* The state is the controller object's fields, the levels of the lines    *)
(* it drives, the position of the running method, and two histories of     *)
(* the running top-level call: `calls` (what the controller asked of its   *)
(* collaborators: reset, fill, write_cmd, write_data) and `log` (what      *)
(* reached the bus, the lines and the clock, primitive by primitive).      *)
(* One action is one transport write (or one reset / fill), so that a      *)
(* transport error can abort a method between any two writes.              *)
(***************************************************************************)
EXTENDS Integers, Sequences, FiniteSets, TLC

VARIABLES
    variant,    \* "none" before construction, then "i2c" or "spi"
    width,      \* self.width
    height,     \* self.height
    pages,      \* self.pages
    buffer,     \* self.buffer, a sequence of bytes (1-based here)
    addr,       \* self.addr (I2C)
    temp,       \* self.temp, the 2-byte scratch buffer (I2C)
    hasRes,     \* res is not None
    hasCs,      \* cs is not None (SPI)
    pin,        \* level of the res, dc and cs lines: "none", "hi" or "lo"
    pc,         \* position of the running method
    op,         \* the top-level method being (or last) run
    page,       \* show()'s loop variable
    param,      \* the argument of the running top-level call (0: none)
    panel,      \* the display on/off bit as last commanded: "unknown", "on", "off"
    tasks,      \* two callers running show() on the one controller at once
    calls,      \* collaborator calls made by the current top-level call
    log,        \* bus, line and clock primitives of the current top-level call
    err         \* the current top-level call was aborted by an exception

vars == <<variant, width, height, pages, buffer, addr, temp, hasRes, hasCs,
          pin, pc, op, page, param, panel, tasks, calls, log, err>>

---------------------------------------------------------------------------
(* Bounds of the model. *)

MaxWidth == 2
\* heights come in steps of 4 rows: 4, 8, ..., 4 * MaxHeightSteps, so that
\* every other one is not a multiple of 8
MaxHeightSteps == 4

\* the tallest panel of the tall-panel specification, in pages
MaxTallPages == 17

\* the pages of the panel two callers share in the concurrent specification
ConcPages == 2

Widths == 1..MaxWidth
Heights == {4 * k : k \in 1..MaxHeightSteps}
\* 7-bit device addresses: the default one and the largest one
Addrs == {60, 127}
\* contrast levels and invert arguments the caller passes
Levels == {0, 127, 255}
InvertArgs == {0, 1, 2}
\* pixels the caller draws: the top row of the first and the last page, in
\* the last column
DrawXs(w) == {w - 1}
DrawYs(h) == {0, 8 * ((h \div 8) - 1)}
\* heights of tall panels: the last three page counts up to MaxTallPages
TallHeights == {8 * k : k \in (MaxTallPages - 2)..MaxTallPages}

---------------------------------------------------------------------------
(* Register definitions. *)

SET_CONTRAST == 129
SET_NORM_INV == 166
SET_DISP == 174
LOW_COLUMN_ADDRESS == 0
HIGH_COLUMN_ADDRESS == 16
SET_PAGE_ADDRESS == 176
\* self.rate of the SPI variant
Rate == 10000000

---------------------------------------------------------------------------
(* Python integer operators on bytes. *)

RECURSIVE BitOr(_, _)
BitOr(a, b) ==
    IF a = 0 THEN b
    ELSE IF b = 0 THEN a
    ELSE (IF a % 2 = 1 \/ b % 2 = 1 THEN 1 ELSE 0) + 2 * BitOr(a \div 2, b \div 2)

RECURSIVE BitAnd(_, _)
BitAnd(a, b) ==
    IF a = 0 \/ b = 0 THEN 0
    ELSE (IF a % 2 = 1 /\ b % 2 = 1 THEN 1 ELSE 0) + 2 * BitAnd(a \div 2, b \div 2)

\* int(bool): True is 1 and False is 0 under | and &
BoolInt(b) == IF b THEN 1 ELSE 0

Max(S) == CHOOSE m \in S : \A n \in S : n <= m

\* buffer[lo:hi] of Python (0-based, end excluded, clamped to the length)
Slice(buf, lo, hi) ==
    LET l == IF lo > Len(buf) THEN Len(buf) ELSE lo
        h == IF hi > Len(buf) THEN Len(buf) ELSE hi
    IN IF h <= l THEN <<>> ELSE SubSeq(buf, l + 1, h)

Zeros(n) == [i \in 1..n |-> 0]

---------------------------------------------------------------------------
(* Primitives on the bus, the lines and the clock. *)

Ev(dev, what, arg) == [dev |-> dev, what |-> what, arg |-> arg, ok |-> TRUE]

\* a bus transfer can raise (NACK, timeout); a line, the clock or the
\* setting of the bus mode cannot
Fallible(e) == e.dev \in {"i2c", "spi"} /\ e.what # "init"

FailPoints(evs) == {0} \cup {i \in DOMAIN evs : Fallible(evs[i])}

\* what ran when primitive f raised (f = 0: none did): the primitives before
\* it, then the attempt itself, and nothing after it
Executed(evs, f) ==
    IF f = 0 THEN evs
    ELSE SubSeq(evs, 1, f - 1) \o <<[evs[f] EXCEPT !.ok = FALSE]>>

LevelOf(e) ==
    IF e.what = "high" THEN "hi"
    ELSE IF e.what = "low" THEN "lo"
    ELSE IF e.arg[1] = 1 THEN "hi" ELSE "lo"

PinsAfter(p, evs) ==
    [d \in DOMAIN p |->
        LET idx == {i \in DOMAIN evs : evs[i].dev = d}
        IN IF idx = {} THEN p[d] ELSE LevelOf(evs[Max(idx)])]

---------------------------------------------------------------------------
(* The transports. *)

\* a write that sets only the command byte of the scratch buffer
I2C_write_cmd_mut(cmd) ==
    [temp |-> <<temp[1], cmd>>,
     evs  |-> <<Ev("i2c", "writeto", <<addr>> \o <<temp[1], cmd>>)>>]

I2C_write_cmd(cmd) ==
    [temp |-> <<128, cmd>>,
     evs  |-> <<Ev("i2c", "writeto", <<addr>> \o <<128, cmd>>)>>]

\* a data write that sends the address unshifted
I2C_write_data_mut(buf) ==
    [temp |-> <<addr, 64>>,
     evs  |-> << Ev("i2c", "start", <<>>),
                 Ev("i2c", "write", <<addr, 64>>),
                 Ev("i2c", "write", buf),
                 Ev("i2c", "stop", <<>>) >>]

I2C_write_data(buf) ==
    [temp |-> <<addr * 2, 64>>,
     evs  |-> << Ev("i2c", "start", <<>>),
                 Ev("i2c", "write", <<addr * 2, 64>>),
                 Ev("i2c", "write", buf),
                 Ev("i2c", "stop", <<>>) >>]

\* a command write that sets D/C after asserting CS
SPI_write_cmd_mut(cmd) ==
    [temp |-> temp,
     evs  |-> <<Ev("spi", "init", <<Rate, 0, 0>>)>> \o
              (IF hasCs
               THEN << Ev("cs", "high", <<>>),
                       Ev("cs", "low", <<>>),
                       Ev("dc", "low", <<>>),
                       Ev("spi", "write", <<cmd>>),
                       Ev("cs", "high", <<>>) >>
               ELSE << Ev("spi", "write", <<cmd>>),
                       Ev("dc", "low", <<>>) >>)]

SPI_write_cmd(cmd) ==
    [temp |-> temp,
     evs  |-> <<Ev("spi", "init", <<Rate, 0, 0>>)>> \o
              (IF hasCs
               THEN << Ev("cs", "high", <<>>),
                       Ev("dc", "low", <<>>),
                       Ev("cs", "low", <<>>),
                       Ev("spi", "write", <<cmd>>),
                       Ev("cs", "high", <<>>) >>
               ELSE << Ev("dc", "low", <<>>),
                       Ev("spi", "write", <<cmd>>) >>)]

\* a data write framed as a command
SPI_write_data_mut2(buf) ==
    [temp |-> temp,
     evs  |-> <<Ev("spi", "init", <<Rate, 0, 0>>)>> \o
              (IF hasCs
               THEN << Ev("cs", "high", <<>>),
                       Ev("dc", "low", <<>>),
                       Ev("cs", "low", <<>>),
                       Ev("spi", "write", buf),
                       Ev("cs", "high", <<>>) >>
               ELSE << Ev("dc", "low", <<>>),
                       Ev("spi", "write", buf) >>)]

\* a data write that relies on the bus mode the last command left
SPI_write_data_mut(buf) ==
    [temp |-> temp,
     evs  |-> IF hasCs
              THEN << Ev("cs", "high", <<>>),
                      Ev("dc", "high", <<>>),
                      Ev("cs", "low", <<>>),
                      Ev("spi", "write", buf),
                      Ev("cs", "high", <<>>) >>
              ELSE << Ev("dc", "high", <<>>),
                      Ev("spi", "write", buf) >>]

SPI_write_data(buf) ==
    [temp |-> temp,
     evs  |-> <<Ev("spi", "init", <<Rate, 0, 0>>)>> \o
              (IF hasCs
               THEN << Ev("cs", "high", <<>>),
                       Ev("dc", "high", <<>>),
                       Ev("cs", "low", <<>>),
                       Ev("spi", "write", buf),
                       Ev("cs", "high", <<>>) >>
               ELSE << Ev("dc", "high", <<>>),
                       Ev("spi", "write", buf) >>)]

write_cmd(cmd) == IF variant = "i2c" THEN I2C_write_cmd(cmd) ELSE SPI_write_cmd(cmd)

write_data(buf) == IF variant = "i2c" THEN I2C_write_data(buf) ELSE SPI_write_data(buf)

\* a reset that does not wait after releasing the line
ResetEvents_mut(present) ==
    IF present
    THEN << Ev("res", "high", <<>>), Ev("time", "sleep_ms", <<1>>),
            Ev("res", "low", <<>>),  Ev("time", "sleep_ms", <<20>>),
            Ev("res", "high", <<>>) >>
    ELSE <<>>

\* a reset that drives the line whether or not there is one
ResetEvents_mut2(present) ==
    << Ev("res", "high", <<>>), Ev("time", "sleep_ms", <<1>>),
       Ev("res", "low", <<>>),  Ev("time", "sleep_ms", <<20>>),
       Ev("res", "high", <<>>), Ev("time", "sleep_ms", <<20>>) >>

\* SH1106.reset(res)
ResetEvents(present) ==
    IF present
    THEN << Ev("res", "high", <<>>), Ev("time", "sleep_ms", <<1>>),
            Ev("res", "low", <<>>),  Ev("time", "sleep_ms", <<20>>),
            Ev("res", "high", <<>>), Ev("time", "sleep_ms", <<20>>) >>
    ELSE <<>>

---------------------------------------------------------------------------
(* The command bytes and data blocks the controller computes. *)

PowerOffByte == BitOr(SET_DISP, 0)
PowerOnByte == BitOr(SET_DISP, 1)
\* the inversion taken the wrong way round
SleepByte_mut(value) == BitOr(SET_DISP, BoolInt(value))
SleepByte(value) == BitOr(SET_DISP, BoolInt(~value))
\* an inversion sent on the display on/off register
InvertByte_mut(invert) == BitOr(SET_DISP, BitAnd(invert, 1))
InvertByte(invert) == BitOr(SET_NORM_INV, BitAnd(invert, 1))
\* a level cut to seven bits
ContrastByte_mut(contrast) == BitAnd(contrast, 127)
\* contrast's second command byte is the level as passed
ContrastByte(contrast) == contrast
\* a flush that addresses every block to page 0
PageByte_mut(p) == BitOr(SET_PAGE_ADDRESS, 0)
PageByte(p) == BitOr(SET_PAGE_ADDRESS, p)
LowColumnByte == BitOr(LOW_COLUMN_ADDRESS, 2)
HighColumnByte == BitOr(HIGH_COLUMN_ADDRESS, 0)
\* a slice that starts at the page index, not at the page's first byte
PageBlock_mut(p) == Slice(buffer, p, p + width)
PageBlock(p) == Slice(buffer, width * p, width * p + width)

\* range(self.height // 8)
ShowRange == height \div 8

\* a fill that leaves the buffer as it is
FillBuffer_mut(buf, val) == buf
\* framebuf.fill(val) on the MONO_VLSB buffer
FillBuffer(buf, val) == [i \in DOMAIN buf |-> IF val # 0 THEN 255 ELSE 0]

\* framebuf.pixel(x, y, col) on the MONO_VLSB buffer
PixelBuffer(buf, x, y, col) ==
    LET i == (y \div 8) * width + x + 1
        bit == 2 ^ (y % 8)
    IN IF x < 0 \/ x >= width \/ y < 0 \/ y >= height \/ i \notin DOMAIN buf
       THEN buf
       ELSE [buf EXCEPT ![i] = IF col # 0 THEN BitOr(@, bit)
                                          ELSE BitAnd(@, 255 - bit)]

---------------------------------------------------------------------------
(* The device's reading of what is put on the bus: a byte framed as a
   command (I2C control byte 0x80, Co=1 D/C#=0; SPI with D/C low) or a block
   framed as data (I2C control byte 0x40, Co=0 D/C#=1; SPI with D/C high).
   A transfer that raised delivers nothing. *)

Item(kind, bytes) == [kind |-> kind, bytes |-> bytes]

RECURSIVE Deliver(_, _, _)
Deliver(evs, i, dc) ==
    IF i > Len(evs) THEN <<>>
    ELSE LET e == evs[i]
         IN IF e.dev = "dc"
            THEN Deliver(evs, i + 1, LevelOf(e))
            ELSE IF e.dev = "spi" /\ e.what = "write" /\ e.ok
            THEN <<Item(IF dc = "lo" THEN "cmd" ELSE "data", e.arg)>>
                 \o Deliver(evs, i + 1, dc)
            ELSE IF e.dev = "i2c" /\ e.what = "writeto" /\ e.ok /\ e.arg[1] = addr
            THEN <<Item(IF e.arg[2] = 128 THEN "cmd"
                        ELSE IF e.arg[2] = 64 THEN "data" ELSE "other",
                        SubSeq(e.arg, 3, Len(e.arg)))>>
                 \o Deliver(evs, i + 1, dc)
            ELSE IF /\ e.dev = "i2c" /\ e.what = "start" /\ e.ok
                    /\ i + 2 <= Len(evs)
                    /\ evs[i + 1].what = "write" /\ evs[i + 1].ok
                    /\ evs[i + 2].what = "write" /\ evs[i + 2].ok
                    /\ evs[i + 1].arg[1] = addr * 2
            THEN <<Item(IF evs[i + 1].arg[2] = 64 THEN "data"
                        ELSE IF evs[i + 1].arg[2] = 128 THEN "cmd" ELSE "other",
                        evs[i + 2].arg)>>
                 \o Deliver(evs, i + 3, dc)
            ELSE Deliver(evs, i + 1, dc)

\* the display on/off bit: _SET_DISP | 1 switches the panel on, | 0 off
RECURSIVE PanelAfter(_, _)
PanelAfter(p, items) ==
    IF items = <<>> THEN p
    ELSE LET it == Head(items)
             q == IF it.kind = "cmd" /\ it.bytes = <<SET_DISP + 1>> THEN "on"
                  ELSE IF it.kind = "cmd" /\ it.bytes = <<SET_DISP>> THEN "off"
                  ELSE p
         IN PanelAfter(q, Tail(items))

---------------------------------------------------------------------------
(* Steps. *)

Call(fn, arg, ok) == [fn |-> fn, arg |-> arg, ok |-> ok]

\* an error that is swallowed and the write tried again
Raise_mut ==
    /\ err' = TRUE
    /\ pc' = pc
    /\ page' = page
\* an exception leaves the running method; out of a constructor it leaves
\* no object behind
Raise ==
    /\ err' = TRUE
    /\ pc' = IF op' = "construct" THEN "failed" ELSE "idle"
    /\ page' = page

\* one transport write w (of write_cmd or write_data), after the histories
\* c0 and l0; on success the method goes on at pc1 with loop variable page1
Transport(fn, arg, w, c0, l0, pc1, page1) ==
    \E f \in FailPoints(w.evs) :
        LET ran == Executed(w.evs, f)
        IN /\ temp' = w.temp
           /\ log' = l0 \o ran
           /\ calls' = Append(c0, Call(fn, arg, f = 0))
           /\ pin' = PinsAfter(pin, ran)
           /\ panel' = PanelAfter(panel, Deliver(ran, 1, pin["dc"]))
           /\ IF f = 0
              THEN pc' = pc1 /\ page' = page1 /\ err' = FALSE
              ELSE Raise

\* where show()'s loop goes with its variable at p
LoopPc(p) == IF p < ShowRange THEN "show_page" ELSE "idle"

\* the callers that share the controller in the concurrent specification
Callers == {1, 2}

\* no concurrent callers
NoTasks ==
    [serial |-> FALSE,
     pc     |-> [c \in Callers |-> "none"],
     page   |-> [c \in Callers |-> 0],
     owner  |-> 0,
     recent |-> <<>>]

Init ==
    /\ variant = "none"
    /\ width = 0
    /\ height = 0
    /\ pages = 0
    /\ buffer = <<>>
    /\ addr = 0
    /\ temp = <<0, 0>>
    /\ hasRes = FALSE
    /\ hasCs = FALSE
    /\ pin = [d \in {"res", "dc", "cs"} |-> "none"]
    /\ pc = "new"
    /\ op = "none"
    /\ page = 0
    /\ param = 0
    /\ panel = "unknown"
    /\ tasks = NoTasks
    /\ calls = <<>>
    /\ log = <<>>
    /\ err = FALSE

\* SH1106.__init__ up to the call of init_display. FrameBuffer1 is the
\* framebuf module's: a build that checks the buffer against the geometry
\* (strict) raises when the buffer is too small for the height.
\* one byte for every pixel
BufferSize_mut(w, h) == w * h
\* self.pages = self.height // 8; bytearray(self.pages * self.width)
BufferSize(w, h) == (h \div 8) * w

BaseInit(w, h, strict, l0) ==
    /\ width' = w
    /\ height' = h
    /\ pages' = h \div 8
    /\ buffer' = Zeros(BufferSize(w, h))
    /\ op' = "construct"
    /\ page' = 0
    /\ param' = 0
    /\ panel' = panel
    /\ tasks' = tasks
    /\ calls' = <<>>
    /\ log' = l0
    /\ pin' = PinsAfter(pin, l0)
    /\ IF strict /\ ((h + 7) \div 8) * w > (h \div 8) * w
       THEN err' = TRUE /\ pc' = "failed"
       ELSE err' = FALSE /\ pc' = "init_reset"

ConstructI2C ==
    /\ pc = "new"
    /\ \E w \in Widths, h \in Heights, res \in BOOLEAN, a \in Addrs, strict \in BOOLEAN :
        /\ variant' = "i2c"
        /\ addr' = a
        /\ hasRes' = res
        /\ temp' = <<0, 0>>
        /\ UNCHANGED hasCs
        /\ BaseInit(w, h, strict,
                    IF res THEN <<Ev("res", "init", <<1>>)>> ELSE <<>>)

ConstructSPI ==
    /\ pc = "new"
    /\ \E w \in Widths, h \in Heights, res \in BOOLEAN, cs \in BOOLEAN, strict \in BOOLEAN :
        /\ variant' = "spi"
        /\ hasRes' = res
        /\ hasCs' = cs
        /\ UNCHANGED <<addr, temp>>
        /\ BaseInit(w, h, strict,
                    <<Ev("dc", "init", <<0>>)>>
                    \o (IF res THEN <<Ev("res", "init", <<0>>)>> ELSE <<>>)
                    \o (IF cs THEN <<Ev("cs", "init", <<1>>)>> ELSE <<>>))

fields == <<variant, width, height, pages, addr, hasRes, hasCs>>

\* self.reset() after the histories c0 and l0
DoReset(c0, l0, pc1) ==
    LET evs == ResetEvents(hasRes)
    IN /\ log' = l0 \o evs
       /\ calls' = Append(c0, Call("reset", <<>>, TRUE))
       /\ pin' = PinsAfter(pin, evs)
       /\ pc' = pc1
       /\ err' = FALSE
       /\ UNCHANGED <<fields, tasks, buffer, temp, page, panel>>

\* init_display: self.reset()
InitReset ==
    /\ pc = "init_reset"
    /\ UNCHANGED <<op, param>>
    /\ DoReset(calls, log, "init_fill")

\* init_display: self.fill(0)
InitFill ==
    /\ pc = "init_fill"
    /\ buffer' = FillBuffer(buffer, 0)
    /\ calls' = Append(calls, Call("fill", <<0>>, TRUE))
    /\ pc' = "init_poweron"
    /\ UNCHANGED <<fields, tasks, temp, pin, op, page, param, panel, log, err>>

\* init_display: self.poweron(), then into show()
InitPoweron ==
    /\ pc = "init_poweron"
    /\ UNCHANGED <<fields, tasks, buffer, op, param>>
    /\ Transport("write_cmd", <<PowerOnByte>>, write_cmd(PowerOnByte),
                 calls, log, LoopPc(0), 0)

\* show: self.write_cmd(_SET_PAGE_ADDRESS | page)
ShowPage ==
    /\ pc = "show_page"
    /\ UNCHANGED <<fields, tasks, buffer, op, param>>
    /\ Transport("write_cmd", <<PageByte(page)>>, write_cmd(PageByte(page)),
                 calls, log, "show_low", page)

\* show: self.write_cmd(_LOW_COLUMN_ADDRESS | 2)
ShowLow ==
    /\ pc = "show_low"
    /\ UNCHANGED <<fields, tasks, buffer, op, param>>
    /\ Transport("write_cmd", <<LowColumnByte>>, write_cmd(LowColumnByte),
                 calls, log, "show_high", page)

\* show: self.write_cmd(_HIGH_COLUMN_ADDRESS | 0)
ShowHigh ==
    /\ pc = "show_high"
    /\ UNCHANGED <<fields, tasks, buffer, op, param>>
    /\ Transport("write_cmd", <<HighColumnByte>>, write_cmd(HighColumnByte),
                 calls, log, "show_data", page)

\* a flush that blanks the buffer as it sends a page
ShowData_mut ==
    /\ pc = "show_data"
    /\ UNCHANGED <<fields, tasks, op, param>>
    /\ buffer' = Zeros(Len(buffer))
    /\ Transport("write_data", PageBlock(page), write_data(PageBlock(page)),
                 calls, log, LoopPc(page + 1), page + 1)

\* show: self.write_data(self.buffer[width * page : width * page + width])
ShowData ==
    /\ pc = "show_data"
    /\ UNCHANGED <<fields, tasks, buffer, op, param>>
    /\ Transport("write_data", PageBlock(page), write_data(PageBlock(page)),
                 calls, log, LoopPc(page + 1), page + 1)

---------------------------------------------------------------------------
(* The caller's calls on a constructed controller. *)

Poweroff ==
    /\ pc = "idle"
    /\ op' = "poweroff"
    /\ param' = 0
    /\ UNCHANGED <<fields, tasks, buffer>>
    /\ Transport("write_cmd", <<PowerOffByte>>, write_cmd(PowerOffByte),
                 <<>>, <<>>, "idle", page)

Poweron ==
    /\ pc = "idle"
    /\ op' = "poweron"
    /\ param' = 0
    /\ UNCHANGED <<fields, tasks, buffer>>
    /\ Transport("write_cmd", <<PowerOnByte>>, write_cmd(PowerOnByte),
                 <<>>, <<>>, "idle", page)

Sleep ==
    /\ pc = "idle"
    /\ \E value \in BOOLEAN :
        /\ op' = (IF value THEN "sleep_true" ELSE "sleep_false")
        /\ param' = BoolInt(value)
        /\ Transport("write_cmd", <<SleepByte(value)>>, write_cmd(SleepByte(value)),
                     <<>>, <<>>, "idle", page)
    /\ UNCHANGED <<fields, tasks, buffer>>

\* contrast: self.write_cmd(_SET_CONTRAST)
Contrast ==
    /\ pc = "idle"
    /\ op' = "contrast"
    /\ param' \in Levels
    /\ UNCHANGED <<fields, tasks, buffer>>
    /\ Transport("write_cmd", <<SET_CONTRAST>>, write_cmd(SET_CONTRAST),
                 <<>>, <<>>, "contrast_level", page)

\* contrast: self.write_cmd(contrast)
ContrastLevel ==
    /\ pc = "contrast_level"
    /\ UNCHANGED <<fields, tasks, buffer, op, param>>
    /\ Transport("write_cmd", <<ContrastByte(param)>>, write_cmd(ContrastByte(param)),
                 calls, log, "idle", page)

Invert ==
    /\ pc = "idle"
    /\ op' = "invert"
    /\ UNCHANGED <<fields, tasks, buffer>>
    /\ \E invert \in InvertArgs :
        /\ param' = invert
        /\ Transport("write_cmd", <<InvertByte(invert)>>, write_cmd(InvertByte(invert)),
                     <<>>, <<>>, "idle", page)

\* show() is entered: the loop variable starts at 0
Show ==
    /\ pc = "idle"
    /\ op' = "show"
    /\ param' = 0
    /\ page' = 0
    /\ pc' = LoopPc(0)
    /\ calls' = <<>>
    /\ log' = <<>>
    /\ err' = FALSE
    /\ UNCHANGED <<fields, tasks, buffer, temp, pin, panel>>

Fill ==
    /\ pc = "idle"
    /\ \E val \in {0, 1} :
        /\ buffer' = FillBuffer(buffer, val)
        /\ calls' = <<Call("fill", <<val>>, TRUE)>>
        /\ param' = val
    /\ op' = "fill"
    /\ log' = <<>>
    /\ err' = FALSE
    /\ UNCHANGED <<fields, tasks, temp, pin, pc, page, panel>>

Pixel ==
    /\ pc = "idle"
    /\ \E x \in DrawXs(width), y \in DrawYs(height), col \in {0, 1} :
        buffer' = PixelBuffer(buffer, x, y, col)
    /\ op' = "pixel"
    /\ param' = 0
    /\ calls' = <<>>
    /\ log' = <<>>
    /\ err' = FALSE
    /\ UNCHANGED <<fields, tasks, temp, pin, pc, page, panel>>

Reset ==
    /\ pc = "idle"
    /\ op' = "reset"
    /\ param' = 0
    /\ DoReset(<<>>, <<>>, "idle")

InitDisplay ==
    /\ pc = "idle"
    /\ op' = "init_display"
    /\ param' = 0
    /\ DoReset(<<>>, <<>>, "init_fill")

Next ==
    \/ ConstructI2C
    \/ ConstructSPI
    \/ InitReset
    \/ InitFill
    \/ InitPoweron
    \/ ShowPage
    \/ ShowLow
    \/ ShowHigh
    \/ ShowData
    \/ Poweroff
    \/ Poweron
    \/ Sleep
    \/ Contrast
    \/ ContrastLevel
    \/ Invert
    \/ Show
    \/ Fill
    \/ Pixel
    \/ Reset
    \/ InitDisplay

Spec == Init /\ [][Next]_vars

---------------------------------------------------------------------------
(* Tall panels: the constructor takes any height, so the same driver on a
   one-column I2C panel of up to MaxTallPages pages, constructed and
   flushed. *)

ConstructTall ==
    /\ pc = "new"
    /\ \E h \in TallHeights :
        /\ variant' = "i2c"
        /\ addr' = 60
        /\ hasRes' = FALSE
        /\ temp' = <<0, 0>>
        /\ UNCHANGED hasCs
        /\ BaseInit(1, h, FALSE, <<>>)

NextTall ==
    \/ ConstructTall
    \/ InitReset
    \/ InitFill
    \/ InitPoweron
    \/ ShowPage
    \/ ShowLow
    \/ ShowHigh
    \/ ShowData
    \/ Show

SpecTall == Init /\ [][NextTall]_vars

---------------------------------------------------------------------------
(* Two callers on one controller: after construction each of them calls
   show(), and their transport writes interleave one write at a time.  The
   driver has no lock; tasks.serial says whether the callers themselves take
   turns (one show() runs to its end before the other starts).  tasks.recent
   is what the device received last: the last four deliveries, each with the
   caller it came from and that caller's page. *)

ConstructConc ==
    /\ pc = "new"
    /\ \E v \in {"i2c", "spi"}, cs \in BOOLEAN :
        /\ v = "i2c" => ~cs
        /\ variant' = v
        /\ addr' = (IF v = "i2c" THEN 60 ELSE addr)
        /\ hasRes' = FALSE
        /\ hasCs' = cs
        /\ temp' = (IF v = "i2c" THEN <<0, 0>> ELSE temp)
        /\ BaseInit(1, 8 * ConcPages, FALSE,
                    IF v = "i2c" THEN <<>>
                    ELSE <<Ev("dc", "init", <<0>>)>> \o
                         (IF cs THEN <<Ev("cs", "init", <<1>>)>> ELSE <<>>))

\* both callers enter show(): for page in range(self.height // 8)
Spawn ==
    /\ pc = "idle"
    /\ op = "construct"
    /\ ~err
    /\ pc' = "tasks"
    /\ op' = "show"
    /\ param' = 0
    /\ page' = 0
    /\ calls' = <<>>
    /\ log' = <<>>
    /\ err' = FALSE
    /\ \E s \in BOOLEAN :
        tasks' = [serial |-> s,
                  pc     |-> [c \in Callers |-> IF 0 < ShowRange THEN "show_page" ELSE "done"],
                  page   |-> [c \in Callers |-> 0],
                  owner  |-> 0,
                  recent |-> <<>>]
    /\ UNCHANGED <<fields, buffer, temp, pin, panel>>

\* callers that take turns: a show() starts only when no other is running
MayRun(c) == ~tasks.serial \/ tasks.owner \in {0, c}

Window(s) == IF Len(s) > 4 THEN SubSeq(s, Len(s) - 3, Len(s)) ELSE s

\* one transport write w of caller c's show(); on success the caller goes on
\* at pc1 with its loop variable at page1, an exception ends its call
TaskTransport(c, w, pc1, page1) ==
    \E f \in FailPoints(w.evs) :
        LET ran == Executed(w.evs, f)
            got == Deliver(ran, 1, pin["dc"])
            npc == IF f = 0 THEN pc1 ELSE "raised"
        IN /\ temp' = w.temp
           /\ pin' = PinsAfter(pin, ran)
           /\ panel' = PanelAfter(panel, got)
           /\ tasks' = [tasks EXCEPT
                          !.pc[c] = npc,
                          !.page[c] = IF f = 0 THEN page1 ELSE @,
                          !.owner = IF npc \in {"done", "raised"} THEN 0 ELSE c,
                          !.recent = Window(@ \o
                              [i \in DOMAIN got |->
                                  [by |-> c, page |-> tasks.page[c],
                                   kind |-> got[i].kind, bytes |-> got[i].bytes]])]
           /\ UNCHANGED <<variant, width, height, pages, addr, hasRes, hasCs,
                          buffer, pc, op, page, param, calls, log, err>>

TaskPage(c) ==
    /\ pc = "tasks"
    /\ tasks.pc[c] = "show_page"
    /\ MayRun(c)
    /\ TaskTransport(c, write_cmd(PageByte(tasks.page[c])), "show_low", tasks.page[c])

TaskLow(c) ==
    /\ pc = "tasks"
    /\ tasks.pc[c] = "show_low"
    /\ MayRun(c)
    /\ TaskTransport(c, write_cmd(LowColumnByte), "show_high", tasks.page[c])

TaskHigh(c) ==
    /\ pc = "tasks"
    /\ tasks.pc[c] = "show_high"
    /\ MayRun(c)
    /\ TaskTransport(c, write_cmd(HighColumnByte), "show_data", tasks.page[c])

TaskData(c) ==
    /\ pc = "tasks"
    /\ tasks.pc[c] = "show_data"
    /\ MayRun(c)
    /\ TaskTransport(c, write_data(PageBlock(tasks.page[c])),
                     IF tasks.page[c] + 1 < ShowRange THEN "show_page" ELSE "done",
                     tasks.page[c] + 1)

NextConc ==
    \/ ConstructConc
    \/ InitReset
    \/ InitFill
    \/ InitPoweron
    \/ ShowPage
    \/ ShowLow
    \/ ShowHigh
    \/ ShowData
    \/ Spawn
    \/ \E c \in Callers : TaskPage(c)
    \/ \E c \in Callers : TaskLow(c)
    \/ \E c \in Callers : TaskHigh(c)
    \/ \E c \in Callers : TaskData(c)

SpecConc == Init /\ [][NextConc]_vars

---------------------------------------------------------------------------
(* Reading the histories. *)

Cmd(b) == [fn |-> "write_cmd", arg |-> <<b>>, ok |-> TRUE]

Last(s) == s[Len(s)]

\* the top-level call has returned normally
Returned(o) == op = o /\ pc = "idle" /\ ~err

\* c holds the calls of one flush, complete or cut short: page after page
\* from page 0, the three addressing commands and then one data block of
\* width bytes, whatever the outcome of the last call
FlushShaped(c) ==
    \A i \in DOMAIN c :
        LET p == (i - 1) \div 4
            k == (i - 1) % 4
        IN /\ c[i].fn = (IF k = 3 THEN "write_data" ELSE "write_cmd")
           /\ k = 0 => c[i].arg = <<BitOr(176, p)>>
           /\ k = 1 => c[i].arg = <<2>>
           /\ k = 2 => c[i].arg = <<16>>
           /\ k = 3 => Len(c[i].arg) = width

\* the calls of the flush inside the running top-level call: all of them in
\* show(), those after reset, fill and poweron in init_display
FlushCalls ==
    IF op = "show" THEN calls
    ELSE IF Len(calls) > 3 THEN SubSeq(calls, 4, Len(calls)) ELSE <<>>

InFlush == op \in {"show", "construct", "init_display"}

---------------------------------------------------------------------------
(* The claims. *)

\* C1: one complete show() makes exactly height/8 page sequences and nothing
\* else; each is the commands 0xB0|p, 0x02, 0x10 and then one data write of
\* width bytes, for p = 0, 1, 2, ... in increasing order.
C1_ShowPageSequences ==
    /\ InFlush => FlushShaped(FlushCalls)
    /\ (InFlush /\ pc = "idle" /\ ~err /\ variant # "none") =>
          /\ Len(FlushCalls) = 4 * (height \div 8)
          /\ \A i \in DOMAIN FlushCalls : FlushCalls[i].ok

C1_Witness ==
    /\ Returned("show")
    /\ height = 16
    /\ width = 2
    /\ Len(calls) = 8
    /\ calls[5] = Cmd(177)

\* C2: in every show() the data block sent for page p is the buffer's bytes
\* [p*width, p*width+width), so the blocks of one complete show() put end to
\* end are the whole buffer, each byte once.
C2_FlushSendsWholeBuffer ==
    /\ InFlush =>
          \A i \in DOMAIN FlushCalls :
              FlushCalls[i].fn = "write_data" =>
                  LET p == (i - 1) \div 4
                  IN FlushCalls[i].arg = [j \in 1..width |-> buffer[p * width + j]]
    /\ (InFlush /\ pc = "idle" /\ ~err /\ variant # "none") =>
          /\ Len(buffer) = width * (Len(FlushCalls) \div 4)
          /\ \A j \in DOMAIN buffer :
                FlushCalls[4 * ((j - 1) \div width) + 4].arg[((j - 1) % width) + 1]
                    = buffer[j]

C2_Witness ==
    /\ Returned("show")
    /\ buffer = <<0, 1, 0, 0>>
    /\ width = 2
    /\ calls[4].arg = <<0, 1>>
    /\ calls[8].arg = <<0, 0>>

IsBus(e) == e.dev \in {"i2c", "spi"}

\* C3: constructing with a height that is not a multiple of 8 fails: no
\* controller results, and no reset, command or data write is made.
C3_NonMultipleHeightRejected ==
    (variant # "none" /\ height % 8 # 0) =>
        /\ pc # "idle"
        /\ \A i \in DOMAIN log : ~IsBus(log[i]) /\ log[i].what = "init"

\* C4: construction (and init_display) runs, in this order, the whole reset
\* sequence, fill(0), exactly one power-on command 0xAF, then one flush of
\* height/8 pages of width zero bytes each; nothing is written to the bus
\* before the reset sequence is over.
C4_InitDisplayOrder ==
    (op \in {"construct", "init_display"}) =>
        /\ \A i \in DOMAIN calls :
              /\ i = 1 => calls[i].fn = "reset"
              /\ i = 2 => calls[i].fn = "fill" /\ calls[i].arg = <<0>>
              /\ i = 3 => calls[i].fn = "write_cmd" /\ calls[i].arg = <<175>>
              /\ i > 3 => calls[i].arg # <<175>> /\ calls[i].arg # <<174>>
              /\ (i > 3 /\ i % 4 = 3) =>
                    calls[i].fn = "write_data" /\ calls[i].arg = [j \in 1..width |-> 0]
              /\ (i > 3 /\ i % 4 # 3) => calls[i].fn = "write_cmd"
        /\ (pc = "idle" /\ ~err) => Len(calls) = 3 + 4 * (height \div 8)
        /\ \A i, j \in DOMAIN log :
              (IsBus(log[i]) /\ log[j].dev \in {"res", "time"}) => j < i
        /\ (hasRes /\ \E i \in DOMAIN log : IsBus(log[i])) =>
              \E k \in DOMAIN log :
                  /\ k + 5 \in DOMAIN log
                  /\ [n \in 1..6 |-> <<log[k + n - 1].dev, log[k + n - 1].what,
                                       log[k + n - 1].arg>>]
                        = << <<"res", "high", <<>> >>, <<"time", "sleep_ms", <<1>> >>,
                             <<"res", "low", <<>> >>,  <<"time", "sleep_ms", <<20>> >>,
                             <<"res", "high", <<>> >>, <<"time", "sleep_ms", <<20>> >> >>

C4_Witness ==
    /\ op = "construct"
    /\ pc = "idle"
    /\ ~err
    /\ variant = "i2c"
    /\ addr = 60
    /\ hasRes
    /\ height = 16
    /\ Len(calls) = 11
    /\ calls[11].arg = [j \in 1..width |-> 0]

\* C5: when a transport write fails during show() at page k, the error
\* surfaces at once: show() is left, nothing is written after the failed
\* write and it is not tried again, pages 0..k-1 were sent in full and no
\* page after k was touched.
C5_ShowAbortsAtFailure ==
    (op = "show" /\ err) =>
        /\ pc = "idle"
        /\ Len(calls) >= 1
        /\ \A i \in DOMAIN calls : calls[i].ok <=> i < Len(calls)
        /\ Len(log) >= 1
        /\ \A i \in DOMAIN log : log[i].ok <=> i < Len(log)
        /\ page = (Len(calls) - 1) \div 4
        /\ page < height \div 8
        /\ \A p \in 0..(page - 1) :
              calls[4 * p + 4].fn = "write_data" /\ calls[4 * p + 4].ok
        /\ \A i \in DOMAIN calls :
              calls[i].fn = "write_cmd" /\ calls[i].arg[1] >= 176 =>
                  calls[i].arg[1] <= 176 + page

C5_Witness ==
    /\ op = "show"
    /\ err
    /\ pc = "idle"
    /\ page = 1
    /\ Len(calls) = 8
    /\ calls[4].ok
    /\ ~calls[8].ok

\* the step made the collaborator call fn: every step that leaves a call
\* in the history has just made it
StepCalled(fn) ==
    /\ Len(calls') >= 1
    /\ Last(calls').fn = fn

\* a step from "idle" starts a top-level call and with it fresh histories
StartsCall == pc = "idle"

\* what the step put on the bus, the lines and the clock
NewEvents ==
    IF StartsCall THEN log' ELSE SubSeq(log', Len(log) + 1, Len(log'))

\* the step kept what the running call had written before it
KeptLog ==
    StartsCall \/ (Len(log') >= Len(log) /\ SubSeq(log', 1, Len(log)) = log)

NotInit(e) == e.what # "init"

\* C6: I2C write_data(buf) is one continuous bus transaction: start, the
\* address byte addr<<1 (write bit 0, one byte for a 7-bit addr), the control
\* byte 0x40, buf as it is, stop, with nothing else in between, whatever was
\* written before.
C6_I2CDataTransaction ==
    [][ (variant = "i2c" /\ StepCalled("write_data") /\ Last(calls').ok) =>
            /\ KeptLog
            /\ addr * 2 <= 255
            /\ (addr * 2) % 2 = 0
            /\ (addr * 2) \div 2 = addr
            /\ NewEvents =
                 << [dev |-> "i2c", what |-> "start", arg |-> <<>>, ok |-> TRUE],
                    [dev |-> "i2c", what |-> "write", arg |-> <<addr * 2, 64>>, ok |-> TRUE],
                    [dev |-> "i2c", what |-> "write", arg |-> Last(calls').arg, ok |-> TRUE],
                    [dev |-> "i2c", what |-> "stop", arg |-> <<>>, ok |-> TRUE] >>
      ]_vars

C6_Witness ==
    /\ variant = "i2c"
    /\ addr = 127
    /\ Returned("show")
    /\ buffer = <<0, 0, 0, 1>>
    /\ Len(log) = 14
    /\ log[11].what = "start"
    /\ log[12].arg = <<254, 64>>
    /\ log[13].arg = <<0, 1>>
    /\ log[14].what = "stop"

\* C7: I2C write_cmd(c) is exactly one transaction to the configured address
\* with the payload [0x80, c], for every c and after any write_cmd and
\* write_data calls (which share the 2-byte scratch buffer).
C7_I2CCommandTransaction ==
    [][ (variant = "i2c" /\ StepCalled("write_cmd")) =>
            /\ KeptLog
            /\ Len(Last(calls').arg) = 1
            /\ NewEvents =
                 << [dev |-> "i2c", what |-> "writeto",
                     arg |-> <<addr, 128, Last(calls').arg[1]>>,
                     ok |-> Last(calls').ok] >>
      ]_vars

C7_Witness ==
    /\ variant = "i2c"
    /\ op = "show"
    /\ pc = "show_low"
    /\ page = 1
    /\ temp = <<128, 177>>
    /\ Last(log).arg = <<addr, 128, 177>>
    /\ log[Len(log) - 1].what = "stop"

\* C8: SPI write_cmd(c) drives D/C low before it transfers [c]; with a CS
\* line, CS is low only during the transfer and high right before and right
\* after it.
C8_SPICommandFraming ==
    [][ (variant = "spi" /\ StepCalled("write_cmd") /\ Last(calls').ok) =>
            /\ KeptLog
            /\ SelectSeq(NewEvents, NotInit) =
                 (IF hasCs
                  THEN << [dev |-> "cs", what |-> "high", arg |-> <<>>, ok |-> TRUE],
                          [dev |-> "dc", what |-> "low", arg |-> <<>>, ok |-> TRUE],
                          [dev |-> "cs", what |-> "low", arg |-> <<>>, ok |-> TRUE],
                          [dev |-> "spi", what |-> "write", arg |-> Last(calls').arg, ok |-> TRUE],
                          [dev |-> "cs", what |-> "high", arg |-> <<>>, ok |-> TRUE] >>
                  ELSE << [dev |-> "dc", what |-> "low", arg |-> <<>>, ok |-> TRUE],
                          [dev |-> "spi", what |-> "write", arg |-> Last(calls').arg, ok |-> TRUE] >>)
            /\ Len(Last(calls').arg) = 1
            /\ pin'["dc"] = "lo"
            /\ pin'["cs"] = (IF hasCs THEN "hi" ELSE "none")
      ]_vars

C8_Witness ==
    /\ variant = "spi"
    /\ hasCs
    /\ Returned("contrast")
    /\ Len(calls) = 2
    /\ calls[2].arg = <<255>>
    /\ Len(log) = 12
    /\ log[11].arg = <<255>>
    /\ pin["cs"] = "hi"
    /\ pin["dc"] = "lo"

\* C9: reset() with a reset line makes exactly the sequence high, wait 1 ms,
\* low, wait 20 ms, high, wait 20 ms and leaves the line high; with no reset
\* line it does nothing on the bus or the lines.
C9_ResetSequence ==
    [][ StepCalled("reset") =>
            /\ KeptLog
            /\ NewEvents =
                 (IF hasRes
                  THEN << [dev |-> "res", what |-> "high", arg |-> <<>>, ok |-> TRUE],
                          [dev |-> "time", what |-> "sleep_ms", arg |-> <<1>>, ok |-> TRUE],
                          [dev |-> "res", what |-> "low", arg |-> <<>>, ok |-> TRUE],
                          [dev |-> "time", what |-> "sleep_ms", arg |-> <<20>>, ok |-> TRUE],
                          [dev |-> "res", what |-> "high", arg |-> <<>>, ok |-> TRUE],
                          [dev |-> "time", what |-> "sleep_ms", arg |-> <<20>>, ok |-> TRUE] >>
                  ELSE <<>>)
            /\ pin' = (IF hasRes THEN [pin EXCEPT !["res"] = "hi"] ELSE pin)
      ]_vars

C9_Witness ==
    /\ variant = "spi"
    /\ hasRes
    /\ Returned("reset")
    /\ Len(log) = 6
    /\ log[3].what = "low"
    /\ pin["res"] = "hi"

BusWrites == SelectSeq(log, LAMBDA e : e.what \in {"writeto", "write"})

\* C10: sleep(true) emits exactly the one command poweroff() emits, 0xAE,
\* and sleep(false) exactly the one poweron() emits, 0xAF.
C10_SleepIsPowerSwitch ==
    LET one(b) ==
            /\ Len(calls) = 1
            /\ calls[1].fn = "write_cmd"
            /\ calls[1].arg = <<b>>
            /\ Len(BusWrites) <= 1
            /\ ~err => (Len(BusWrites) = 1 /\ Last(BusWrites[1].arg) = b)
    IN /\ op = "sleep_true" => one(174)
       /\ op = "poweroff" => one(174)
       /\ op = "sleep_false" => one(175)
       /\ op = "poweron" => one(175)

C10_Witness ==
    /\ variant = "spi"
    /\ Returned("sleep_true")
    /\ calls = <<Cmd(174)>>
    /\ Last(BusWrites[1].arg) = 174

\* C11: contrast(level) makes exactly two command writes and no data write:
\* first the set-contrast command 0x81, then the level itself, whatever the
\* level; a call cut short by a transport error has made a prefix of these.
C11_ContrastTwoCommands ==
    op = "contrast" =>
        /\ Len(calls) \in {1, 2}
        /\ \A i \in DOMAIN calls : calls[i].fn = "write_cmd"
        /\ calls[1].arg = <<129>>
        /\ Len(calls) = 2 => (calls[1].ok /\ calls[2].arg = <<param>>)
        /\ Len(BusWrites) = Len(calls)
        /\ \A i \in DOMAIN BusWrites : Last(BusWrites[i].arg) = calls[i].arg[1]
        /\ (pc = "idle" /\ ~err) => calls = <<Cmd(129), Cmd(param)>>

C11_Witness ==
    /\ Returned("contrast")
    /\ param = 255
    /\ calls = <<Cmd(129), Cmd(255)>>
    /\ Len(BusWrites) = 2
    /\ Last(BusWrites[2].arg) = 255

\* C12: a controller built with a height that is a multiple of 8 has a pixel
\* buffer of exactly width * (height / 8) bytes, one bit per pixel, from
\* construction on and after every sequence of operations: the buffer is
\* allocated once and keeps its size.
C12_BufferSize ==
    (variant # "none" /\ height % 8 = 0) =>
        /\ Len(buffer) = width * (height \div 8)
        /\ Len(buffer) * 8 = width * height
        /\ pages = height \div 8

C12_Witness ==
    /\ Returned("show")
    /\ width = 2
    /\ height = 16
    /\ buffer = <<255, 254, 255, 255>>

\* the transport calls of the running top-level call, in order
WriteCalls == SelectSeq(calls, LAMBDA c : c.fn \in {"write_cmd", "write_data"})

IsSpiWrite(e) == e.dev = "spi" /\ e.what = "write"

\* the level the running call last drove line d to before its i-th event
LevelBefore(d, i) ==
    LET idx == {j \in 1..(i - 1) : log[j].dev = d}
    IN IF idx = {} THEN "none" ELSE LevelOf(log[Max(idx)])

\* C15: in every sequence of SPI write_cmd and write_data calls, D/C is low
\* at a transfer exactly if it is a command and high exactly if it is a data
\* block; with a CS line every transfer is bracketed by its own CS assert
\* and deassert, D/C changes only while CS is high, and CS is high between
\* any two calls.
C15_SPILineDiscipline ==
    variant = "spi" =>
        /\ \A i \in DOMAIN log :
              IsSpiWrite(log[i]) =>
                 LET k == Cardinality({j \in 1..i : IsSpiWrite(log[j])})
                 IN /\ k <= Len(WriteCalls)
                    /\ LevelBefore("dc", i) =
                          (IF WriteCalls[k].fn = "write_cmd" THEN "lo" ELSE "hi")
        /\ hasCs =>
              /\ \A i \in DOMAIN log :
                    IsSpiWrite(log[i]) =>
                       /\ i > 1 /\ log[i - 1].dev = "cs" /\ log[i - 1].what = "low"
                       /\ i < Len(log) /\ log[i + 1].dev = "cs" /\ log[i + 1].what = "high"
              /\ \A i \in DOMAIN log :
                    (log[i].dev = "dc" /\ log[i].what # "init") =>
                       LevelBefore("cs", i) = "hi"
              /\ pin["cs"] = "hi"

\* the operations that only talk to the device
DeviceOps == {"show", "contrast", "invert", "poweron", "poweroff",
              "sleep_true", "sleep_false"}

\* C16: no step of show, contrast, invert, poweron, poweroff or sleep,
\* whether it succeeds or is aborted by a transport error, changes the pixel
\* buffer, the width, the height or the page count; the buffer changes only
\* in fill and the drawing operations (and where construction and
\* init_display create and clear it).
C16_DeviceOpsKeepBuffer ==
    [][ /\ op' \in DeviceOps =>
             /\ buffer' = buffer
             /\ width' = width
             /\ height' = height
             /\ pages' = pages
        /\ buffer' # buffer => op' \in {"fill", "pixel", "construct", "init_display"}
        /\ variant # "none" => <<width, height, pages>>' = <<width, height, pages>>
      ]_vars

C16_Witness ==
    /\ op = "show"
    /\ pc = "idle"
    /\ err
    /\ Len(calls) = 6
    /\ width = 2
    /\ buffer = <<255, 254, 255, 255>>

IsSpiInit(e) == e.dev = "spi" /\ e.what = "init"

\* C17: every SPI command or data transfer is preceded by its own setting of
\* the bus mode (10 MHz, polarity 0, phase 0) with nothing on the bus in
\* between, in every sequence of calls, with and without a CS line.
C17_SPIReinitBeforeTransfer ==
    variant = "spi" =>
        /\ \A i \in DOMAIN log :
              IsSpiWrite(log[i]) =>
                 \E j \in 1..(i - 1) :
                     /\ log[j] = [dev |-> "spi", what |-> "init",
                                  arg |-> <<10000000, 0, 0>>, ok |-> TRUE]
                     /\ \A k \in (j + 1)..(i - 1) : log[k].dev \in {"cs", "dc"}
        /\ Cardinality({i \in DOMAIN log : IsSpiInit(log[i])}) =
              Cardinality({i \in DOMAIN log : IsSpiWrite(log[i])})
        /\ Cardinality({i \in DOMAIN log : IsSpiWrite(log[i])}) = Len(WriteCalls)

C17_Witness ==
    /\ variant = "spi"
    /\ ~hasCs
    /\ Returned("show")
    /\ height = 16
    /\ Cardinality({i \in DOMAIN log : IsSpiInit(log[i])}) = 8
    /\ IsSpiInit(log[22])
    /\ log[23].dev = "dc"
    /\ IsSpiWrite(log[24])

Untouched(d) == pin[d] = "none" /\ \A i \in DOMAIN log : log[i].dev # d

\* the transfers the running call put on the SPI bus, failed ones included
SpiWrites == SelectSeq(log, IsSpiWrite)

\* C18: a line that is not configured is never initialized or driven, by
\* construction, reset, commands, data writes or show, and what goes over the
\* bus does not depend on the lines: transfer for transfer, the bytes are
\* those of the write_cmd and write_data calls made and D/C is low for a
\* command and high for a data block.
C18_AbsentLinesUntouched ==
    /\ (variant # "none" /\ ~hasRes) =>
          /\ Untouched("res")
          /\ \A i \in DOMAIN log : log[i].dev # "time"
    /\ (variant = "spi" /\ ~hasCs) => Untouched("cs")
    /\ variant = "i2c" => (Untouched("cs") /\ Untouched("dc"))
    /\ variant = "spi" =>
          /\ Len(SpiWrites) = Len(WriteCalls)
          /\ \A k \in DOMAIN SpiWrites :
                /\ SpiWrites[k].arg = WriteCalls[k].arg
                /\ SpiWrites[k].ok = WriteCalls[k].ok
          /\ \A i \in DOMAIN log :
                IsSpiWrite(log[i]) =>
                   LET k == Cardinality({j \in 1..i : IsSpiWrite(log[j])})
                   IN LevelBefore("dc", i) =
                         (IF WriteCalls[k].fn = "write_cmd" THEN "lo" ELSE "hi")

C18_Witness ==
    /\ variant = "spi"
    /\ ~hasCs
    /\ ~hasRes
    /\ Returned("construct")
    /\ height = 8
    /\ calls[1].fn = "reset"
    /\ Len(SpiWrites) = 5
    /\ pin = [dc |-> "hi", res |-> "none", cs |-> "none"]

\* the step ends the top-level call o with a normal return
Returns(o) == op' = o /\ pc' = "idle" /\ ~err'

IsPowerByte(c) == c.fn = "write_cmd" /\ (c.arg = <<174>> \/ c.arg = <<175>>)

\* C19: poweron() emits exactly one command 0xAF and poweroff() exactly one
\* command 0xAE; construction leaves the panel on; the panel's on/off state
\* is the one set by the latest poweron, poweroff or sleep, because no step
\* of show() or invert() emits 0xAE or 0xAF or changes that state.
C19_PanelPowerState ==
    [][ /\ (Returns("poweron") \/ Returns("sleep_false")) =>
              (calls' = <<Cmd(175)>> /\ Len(BusWrites') = 1 /\ panel' = "on")
        /\ (Returns("poweroff") \/ Returns("sleep_true")) =>
              (calls' = <<Cmd(174)>> /\ Len(BusWrites') = 1 /\ panel' = "off")
        /\ (op' \in {"poweron", "poweroff", "sleep_true", "sleep_false"} /\ err') =>
              panel' = panel
        /\ (Returns("construct") \/ Returns("init_display")) => panel' = "on"
        /\ op' \in {"show", "invert", "contrast", "fill", "pixel"} =>
              /\ panel' = panel
              /\ \A i \in DOMAIN calls' : ~IsPowerByte(calls'[i])
      ]_vars

C19_Witness ==
    /\ Returned("show")
    /\ height = 16
    /\ Len(calls) = 8
    /\ panel = "off"

IsPrefix(s, t) == Len(s) <= Len(t) /\ SubSeq(t, 1, Len(s)) = s

\* what the running call has delivered to the device so far
Delivered == Deliver(log, 1, "none")

\* the flush of n pages of w bytes out of buf, as the device should get it
RECURSIVE FlushItems(_, _, _)
FlushItems(buf, w, n) ==
    IF n = 0 THEN <<>>
    ELSE FlushItems(buf, w, n - 1) \o
         << [kind |-> "cmd", bytes |-> <<176 + (n - 1)>>],
            [kind |-> "cmd", bytes |-> <<2>>],
            [kind |-> "cmd", bytes |-> <<16>>],
            [kind |-> "data", bytes |-> SubSeq(buf, w * (n - 1) + 1, w * n)] >>

\* what a complete top-level call delivers, by the operation, its argument,
\* the geometry and the buffer alone
Contract ==
    LET cmd(b) == [kind |-> "cmd", bytes |-> <<b>>]
    IN CASE op \in {"poweroff", "sleep_true"} -> <<cmd(174)>>
         [] op \in {"poweron", "sleep_false"} -> <<cmd(175)>>
         [] op = "contrast" -> <<cmd(129), cmd(param)>>
         [] op = "invert" -> <<cmd(166 + (param % 2))>>
         [] op = "show" -> FlushItems(buffer, width, height \div 8)
         [] op \in {"construct", "init_display"} ->
                <<cmd(175)>> \o FlushItems(Zeros(Len(buffer)), width, height \div 8)
         [] OTHER -> <<>>

\* C20: for the same geometry and the same operation, the I2C and the SPI
\* variant deliver the same ordered commands and data blocks, those of the
\* shared contract; the variants differ in bus framing only.
C20_VariantsDeliverSame ==
    variant \in {"i2c", "spi"} =>
        /\ IsPrefix(Delivered, Contract)
        /\ (pc = "idle" /\ ~err) => Delivered = Contract
        /\ Len(Delivered) >= Cardinality({i \in DOMAIN WriteCalls : WriteCalls[i].ok})

C20_Witness ==
    /\ variant = "i2c"
    /\ Returned("show")
    /\ width = 1
    /\ height = 16
    /\ buffer = <<1, 0>>
    /\ Delivered = << [kind |-> "cmd", bytes |-> <<176>>],
                      [kind |-> "cmd", bytes |-> <<2>>],
                      [kind |-> "cmd", bytes |-> <<16>>],
                      [kind |-> "data", bytes |-> <<1>>],
                      [kind |-> "cmd", bytes |-> <<177>>],
                      [kind |-> "cmd", bytes |-> <<2>>],
                      [kind |-> "cmd", bytes |-> <<16>>],
                      [kind |-> "data", bytes |-> <<0>>] >>

\* the page-address bytes of the running flush, by page index
PageBytes ==
    [p \in 0..((Len(FlushCalls) + 3) \div 4 - 1) |-> FlushCalls[4 * p + 1].arg[1]]

\* C14: for every page p of a flush, 0..pageCount-1, the set-page-address
\* byte is 0xB0 with p in its low nibble (byte & 0xF0 = 0xB0 and
\* byte & 0x0F = p), so distinct pages of one flush get distinct bytes.
C14_PageByteNibble ==
    InFlush =>
        /\ \A p \in DOMAIN PageBytes :
              /\ BitAnd(PageBytes[p], 240) = 176
              /\ BitAnd(PageBytes[p], 15) = p
        /\ \A p, q \in DOMAIN PageBytes : p # q => PageBytes[p] # PageBytes[q]

\* the device has just received a data block
DataJustDelivered == tasks.recent # <<>> /\ Last(tasks.recent).kind = "data"

\* the last four deliveries are one caller's page sequence: the three
\* addressing commands of its page and then that page's data block
OwnPageSequence ==
    LET r == tasks.recent
        d == Last(tasks.recent)
    IN /\ Len(r) = 4
       /\ \A i \in DOMAIN r : r[i].by = d.by /\ r[i].page = d.page
       /\ r[1].kind = "cmd" /\ r[1].bytes = <<176 + d.page>>
       /\ r[2].kind = "cmd" /\ r[2].bytes = <<2>>
       /\ r[3].kind = "cmd" /\ r[3].bytes = <<16>>
       /\ Len(d.bytes) = width

\* C13: two show() calls on one controller that interleave write by write
\* can deliver a page's data block while the device is addressed to the page
\* the other call set; when the callers take turns, every data block is
\* delivered right after its own page's three addressing commands.
C13_SerializedShowIsFramed ==
    (DataJustDelivered /\ ~OwnPageSequence) => ~tasks.serial

\* caller 1's block of page 1 arrives after caller 2 addressed page 0
C13_Witness ==
    /\ ~tasks.serial
    /\ DataJustDelivered
    /\ Len(tasks.recent) = 4
    /\ tasks.recent[1].by = 2
    /\ tasks.recent[1].bytes = <<176>>
    /\ tasks.recent[2].by = 1
    /\ tasks.recent[3].by = 1
    /\ tasks.recent[4].by = 1
    /\ tasks.recent[4].page = 1

====
